---- MODULE Spec2Model ----
(***************************************************************************)
(* Model of marker's PDF provider (marker/v2/providers/pdf.py) and of the  *)
(* span renderer (marker/schema/text/span.py).                             *)
(*                                                                         *)
(* A Python str is a sequence of one-character strings.  Markup produced   *)
(* by the renderer's f-strings is a sequence of tokens: the literal pieces *)
(* of the f-string and the interpolated url / anchor values.               *)
(*                                                                         *)
(* Four specifications share the module, one per independent part of the   *)
(* program:                                                                *)
(*   SpecRender    Span.assemble_html                                      *)
(*   SpecClassify  font_flags_to_format / font_names_to_format             *)
(*   SpecSetup     PdfProvider.__init__ / setup / __del__                  *)
(*   SpecImage     PdfProvider.get_image under functools.lru_cache         *)
(***************************************************************************)
EXTENDS Integers, Sequences, FiniteSets, TLC

VARIABLES
    \* ---- Span.assemble_html
    span,        \* the Span being rendered (its fields)
    html,        \* the value assemble_html returned
    rpc,         \* "start" before the call, "done" after it
    \* ---- font classification
    c_flags,     \* span["font"]["flags"]
    c_name,      \* span["font"]["name"]
    c_formats,   \* font_flags_to_format(flags).union(font_names_to_format(name))
    cpc,         \* "start" before the call, "done" after it
    \* ---- PdfProvider.__init__ / setup / __del__
    spc,          \* where the provider's life stands
    doc,          \* self.doc: "unset", "open" or "closed"
    opens,        \* native document handles acquired
    closes,       \* native document handles released
    del_error,    \* exception raised inside __del__, "none" if none
    engine_pages, \* page_char_blocks, what dictionary_output returned
    next_page,    \* position of the for loop of line 91 in engine_pages
    gate,         \* what check_line_spans returned for each page so far
    page_lines,   \* self.page_lines
    \* ---- PdfProvider.get_image behind functools.lru_cache
    cache,        \* the cache of the lru_cache wrapper: key -> image
    tpc,          \* where each calling thread stands
    tkey,         \* the (idx, dpi) each thread called with
    timg,         \* the image each thread's run of the body produced
    returned,     \* what each thread's last call returned
    rasters,      \* per key, how many times the body rendered the page
    calls         \* calls of get_image made so far

renderVars == <<span, html, rpc>>
classVars  == <<c_flags, c_name, c_formats, cpc>>
setupVars  == <<spc, doc, opens, closes, del_error, engine_pages, next_page, gate,
                page_lines>>
imageVars  == <<cache, tpc, tkey, timg, returned, rasters, calls>>
vars       == <<renderVars, classVars, setupVars, imageVars>>

None == "None"      \* Python's None for the Optional[str] fields
NBSP == "nbsp"      \* the character '\xa0'

\* All sequences over S of length 0..n.
SeqUpTo(S, n) == UNION {[1..k -> S] : k \in 0..n}

(***************************************************************************)
(* str helpers used by span.py                                             *)
(***************************************************************************)

\* text[-1] in ["\n", "\r"]  /  text[0] in ["\n", "\r"]
IsNewline(c) == c \in {"\n", "\r"}

\* Python's \s (and str.strip()) on a str: ASCII whitespace and the Unicode
\* whitespace characters, of which '\xa0' is one.
IsSpace(c) == c \in {" ", "\t", "\n", "\r", NBSP}

\* while len(text) > 0 and text[-1] in ["\n", "\r"]: text = text[:-1]
RECURSIVE StripTrailingNewlines(_)
StripTrailingNewlines(t) ==
    IF Len(t) > 0 /\ IsNewline(t[Len(t)])
    THEN StripTrailingNewlines(SubSeq(t, 1, Len(t) - 1))
    ELSE t

\* while len(text) > 0 and text[0] in ["\n", "\r"]: text = text[1:]
RECURSIVE StripLeadingNewlines(_)
StripLeadingNewlines(t) ==
    IF Len(t) > 0 /\ IsNewline(t[1])
    THEN StripLeadingNewlines(Tail(t))
    ELSE t

\* text.endswith('-')
EndsWithHyphen(t) == Len(t) > 0 /\ t[Len(t)] = "-"

\* A plausible slip: the hyphen test is dropped, so a space is appended
\* whenever a trailing newline was stripped.
StripAndPad_NoHyphenTest(t) ==
    LET s1 == StripTrailingNewlines(t)
        replaced_newline == Len(s1) < Len(t)
        s2 == StripLeadingNewlines(s1)
    IN  IF replaced_newline THEN s2 \o <<" ">> ELSE s2

\* span.py lines 46-57: strip trailing newlines (remembering whether any was
\* removed), strip leading newlines, then append one space if a trailing
\* newline was removed and the text does not end with '-'.
StripAndPad(t) ==
    LET s1 == StripTrailingNewlines(t)
        replaced_newline == Len(s1) < Len(t)
        s2 == StripLeadingNewlines(s1)
    IN  IF replaced_newline /\ ~EndsWithHyphen(s2) THEN s2 \o <<" ">> ELSE s2

\* A plausible slip: only the first occurrence is removed (replace(.., 1)).
RECURSIVE RemoveHyphenNewline_FirstOnly(_)
RemoveHyphenNewline_FirstOnly(t) ==
    IF Len(t) < 2 THEN t
    ELSE IF t[1] = "-" /\ t[2] = "\n"
         THEN SubSeq(t, 3, Len(t))
         ELSE <<t[1]>> \o RemoveHyphenNewline_FirstOnly(Tail(t))

\* text.replace("-\n", ""): one left-to-right pass over the non-overlapping
\* occurrences; the result is not scanned again.
RECURSIVE RemoveHyphenNewline(_)
RemoveHyphenNewline(t) ==
    IF Len(t) < 2 THEN t
    ELSE IF t[1] = "-" /\ t[2] = "\n"
         THEN RemoveHyphenNewline(SubSeq(t, 3, Len(t)))
         ELSE <<t[1]>> \o RemoveHyphenNewline(Tail(t))

\* html.escape(s, quote=True), one character
EscapeChar(c) ==
    CASE c = "&"  -> <<"&", "a", "m", "p", ";">>
      [] c = "<"  -> <<"&", "l", "t", ";">>
      [] c = ">"  -> <<"&", "g", "t", ";">>
      [] c = "\"" -> <<"&", "q", "u", "o", "t", ";">>
      [] c = "'"  -> <<"&", "#", "x", "2", "7", ";">>
      [] OTHER    -> <<c>>

\* html.escape(text)
RECURSIVE html_escape(_)
html_escape(t) ==
    IF t = <<>> THEN <<>> ELSE EscapeChar(t[1]) \o html_escape(Tail(t))

\* Number of consecutive matches of the group (\n\s) at the start of t.
RECURSIVE NewlinePairs(_)
NewlinePairs(t) ==
    IF Len(t) >= 2 /\ t[1] = "\n" /\ IsSpace(t[2])
    THEN 1 + NewlinePairs(SubSeq(t, 3, Len(t)))
    ELSE 0

\* re.sub(r'(\n\s){3,}', '\n\n', full_text): leftmost match, greedy.
RECURSIVE CollapseNewlines(_)
CollapseNewlines(t) ==
    IF t = <<>> THEN <<>>
    ELSE LET k == NewlinePairs(t)
         IN  IF k >= 3
             THEN <<"\n", "\n">> \o CollapseNewlines(SubSeq(t, 2 * k + 1, Len(t)))
             ELSE <<t[1]>> \o CollapseNewlines(Tail(t))

\* full_text.replace('\xa0', ' ')
ReplaceNbsp(t) == [i \in 1..Len(t) |-> IF t[i] = NBSP THEN " " ELSE t[i]]

\* cleanup_text(full_text)
cleanup_text(t) == ReplaceNbsp(CollapseNewlines(t))

\* span.py lines 44-61: the text as it stands before the wrapper is chosen.
ProcessText(t) == cleanup_text(html_escape(RemoveHyphenNewline(StripAndPad(t))))

(***************************************************************************)
(* Span properties and the wrapper                                         *)
(***************************************************************************)

\* Truth value of an Optional[str] in "elif self.url and self.anchor".
Truthy(v) == v # None /\ v # ""

bold(s)   == "bold" \in s.formats
italic(s) == "italic" \in s.formats
math(s)   == "math" \in s.formats

\* A plausible slip: the bold test is placed before the italic test.
WrapText_BoldFirst(s, text) ==
    IF bold(s) THEN <<"<b>">> \o text \o <<"</b>">>
    ELSE IF italic(s) THEN <<"<i>">> \o text \o <<"</i>">>
    ELSE IF math(s) THEN <<"<math display='inline'>">> \o text \o <<"</math>">>
    ELSE IF Truthy(s.url) /\ Truthy(s.anchor)
         THEN <<"<span id='", s.anchor, "'>", "<a href='", s.url, "'>">>
              \o text \o <<"</a>", "</span>">>
    ELSE IF Truthy(s.url)
         THEN <<"<a href='", s.url, "'>">> \o text \o <<"</a>">>
    ELSE IF Truthy(s.anchor)
         THEN <<"<span id='", s.anchor, "'>">> \o text \o <<"</span>">>
    ELSE text

\* span.py lines 63-74: the if / elif chain choosing the wrapper.
WrapText(s, text) ==
    IF italic(s) THEN <<"<i>">> \o text \o <<"</i>">>
    ELSE IF bold(s) THEN <<"<b>">> \o text \o <<"</b>">>
    ELSE IF math(s) THEN <<"<math display='inline'>">> \o text \o <<"</math>">>
    ELSE IF Truthy(s.url) /\ Truthy(s.anchor)
         THEN <<"<span id='", s.anchor, "'>", "<a href='", s.url, "'>">>
              \o text \o <<"</a>", "</span>">>
    ELSE IF Truthy(s.url)
         THEN <<"<a href='", s.url, "'>">> \o text \o <<"</a>">>
    ELSE IF Truthy(s.anchor)
         THEN <<"<span id='", s.anchor, "'>">> \o text \o <<"</span>">>
    ELSE text

\* Span.assemble_html(child_blocks, parent_structure); the two parameters
\* are not read.
assemble_html(s) ==
    IF s.ignore_for_output THEN <<>>
    ELSE WrapText(s, ProcessText(s.text))

(***************************************************************************)
(* Inputs of the renderer                                                  *)
(***************************************************************************)

\* Longest text of the exhaustive family, and of the family that adds the
\* characters the escaping and the normalisation rewrite.
MaxLen == 5
ShortLen == 3

\* The characters the exhaustive family is built from: a letter, the hyphen,
\* both newline characters and a space.
TextChars == {"a", "-", "\n", "\r", " "}

\* With a character html.escape rewrites and the non-breaking space.
AllChars == TextChars \cup {"&", NBSP}

\* Texts of the specification's examples and of the normalisation's cases.
SampleTexts == {
    <<"h", "e", "l", "l", "o", "-", "\n", "w", "o", "r", "l", "d">>,
    <<"f", "o", "o", "\n">>,
    <<"a", "\n", " ", "\n", " ", "\n", " ", "b">>,
    <<"a", "\n", "\n", "\n", "\n", "\n", "\n", "\n", "b">>,
    <<"<", "a", ">", "\"", "'", NBSP, "&">> }

FormatTags == {"plain", "math", "chemical", "bold", "italic"}

StyleTexts == {<<"a">>, <<"a", "-", "\n", "&", "\n">>}

\* Family 1: every text, on a span with no formats and no link fields.
\* Family 2: every combination of formats, url, anchor and the ignore flag.
RenderInputs ==
    {[text |-> t, formats |-> {}, url |-> None, anchor |-> None,
      ignore_for_output |-> FALSE] : t \in SeqUpTo(TextChars, MaxLen) \cup SeqUpTo(AllChars, ShortLen)
                                          \cup SampleTexts}
    \cup
    [text : StyleTexts, formats : SUBSET FormatTags,
     url : {None, "", "http://u"}, anchor : {None, "", "sec1"},
     ignore_for_output : BOOLEAN]

ClassIdle ==
    /\ c_flags = 0
    /\ c_name = <<>>
    /\ c_formats = {}
    /\ cpc = "idle"

Threads == {"t1", "t2"}

\* (idx, dpi) arguments of get_image
Keys == {<<0, 72>>, <<0, 96>>, <<1, 96>>}

NoImage == [key |-> <<-1, -1>>, serial |-> 0]

ImageIdle ==
    /\ cache = [k \in Keys |-> NoImage]
    /\ tpc = [t \in Threads |-> "off"]
    /\ tkey = [t \in Threads |-> <<0, 72>>]
    /\ timg = [t \in Threads |-> NoImage]
    /\ returned = [t \in Threads |-> NoImage]
    /\ rasters = [k \in Keys |-> 0]
    /\ calls = 0

SetupIdle ==
    /\ spc = "idle"
    /\ doc = "unset"
    /\ opens = 0
    /\ closes = 0
    /\ del_error = "none"
    /\ engine_pages = <<>>
    /\ next_page = 1
    /\ gate = <<>>
    /\ page_lines = <<>>

RenderInit ==
    /\ span \in RenderInputs
    /\ html = <<>>
    /\ rpc = "start"

Render ==
    /\ rpc = "start"
    /\ html' = assemble_html(span)
    /\ rpc' = "done"
    /\ UNCHANGED <<span, classVars, setupVars, imageVars>>

InitRender == RenderInit /\ ClassIdle /\ SetupIdle /\ ImageIdle
NextRender == Render
SpecRender == InitRender /\ [][NextRender]_vars

(***************************************************************************)
(* Claims about Span.assemble_html (checked under SpecRender)              *)
(***************************************************************************)

\* p occurs in t as a contiguous subsequence.
Contains(t, p) ==
    \E i \in 1..(Len(t) - Len(p) + 1) : SubSeq(t, i, i + Len(p) - 1) = p

\* The subsequence of t at the positions in keep, in order.
RECURSIVE Select(_, _, _)
Select(t, keep, i) ==
    IF i > Len(t) THEN <<>>
    ELSE (IF i \in keep THEN <<t[i]>> ELSE <<>>) \o Select(t, keep, i + 1)

Rendered == rpc = "done" /\ ~span.ignore_for_output

\* The wrapper rules in priority order, and when each one matches.
WrapperRules == <<"italic", "bold", "math", "url_anchor", "url", "anchor">>

Present(v) == v # None /\ v # ""

RuleMatches(r) ==
    CASE r = "italic"     -> "italic" \in span.formats
      [] r = "bold"       -> "bold" \in span.formats
      [] r = "math"       -> "math" \in span.formats
      [] r = "url_anchor" -> Present(span.url) /\ Present(span.anchor)
      [] r = "url"        -> Present(span.url)
      [] r = "anchor"     -> Present(span.anchor)

RuleOpen(r) ==
    CASE r = "italic"     -> <<"<i>">>
      [] r = "bold"       -> <<"<b>">>
      [] r = "math"       -> <<"<math display='inline'>">>
      [] r = "url_anchor" -> <<"<span id='", span.anchor, "'>", "<a href='", span.url, "'>">>
      [] r = "url"        -> <<"<a href='", span.url, "'>">>
      [] r = "anchor"     -> <<"<span id='", span.anchor, "'>">>

RuleClose(r) ==
    CASE r = "italic"     -> <<"</i>">>
      [] r = "bold"       -> <<"</b>">>
      [] r = "math"       -> <<"</math>">>
      [] r = "url_anchor" -> <<"</a>", "</span>">>
      [] r = "url"        -> <<"</a>">>
      [] r = "anchor"     -> <<"</span>">>

MatchingRules == {i \in 1..Len(WrapperRules) : RuleMatches(WrapperRules[i])}

\* Tokens that only a wrapper can put into the output.
OpenTags == {"<i>", "<b>", "<math display='inline'>", "<span id='", "<a href='"}

TagCount(t) == Cardinality({i \in 1..Len(t) : t[i] \in OpenTags})

\* C1: a rendered span is the processed text inside exactly the wrapper of the
\* first matching rule in the order italic, bold, math, url and anchor, url,
\* anchor, and inside no other wrapper; it is the bare processed text when no
\* rule matches.  (A url or anchor counts as present when it is neither None
\* nor the empty string.)
C1_SingleWrapperByPriority ==
    Rendered =>
        LET body == ProcessText(span.text)
        IN  IF MatchingRules = {}
            THEN html = body /\ TagCount(html) = 0
            ELSE LET r == WrapperRules[CHOOSE i \in MatchingRules :
                                           \A j \in MatchingRules : i <= j]
                 IN  /\ html = RuleOpen(r) \o body \o RuleClose(r)
                     /\ TagCount(html) = Len(RuleClose(r))

\* C1 witness: an italic and bold span with a url and an anchor, rendered
\* inside <i>..</i> only.
C1_Witness ==
    /\ Rendered
    /\ {"italic", "bold"} \subseteq span.formats
    /\ Present(span.url) /\ Present(span.anchor)
    /\ span.text = <<"a">>
    /\ html = <<"<i>", "a", "</i>">>

HyphenNewline == <<"-", "\n">>

\* C7 as stated: the rendered output never contains a hyphen directly
\* followed by a newline.
C7_NoHyphenNewlineInOutput == Rendered => ~Contains(html, HyphenNewline)

\* Positions of t that belong to no occurrence of hyphen-newline.
OutsidePairs(t) ==
    {i \in 1..Len(t) :
        /\ ~(t[i] = "-" /\ i < Len(t) /\ t[i + 1] = "\n")
        /\ ~(t[i] = "\n" /\ i > 1 /\ t[i - 1] = "-")}

\* C7 as amended: render deletes every hyphen-newline pair of the text in one
\* pass, joining what surrounds each pair, and does not look at the result
\* again; its output is free of hyphen-newline whenever the span's text has no
\* hyphen directly before a hyphen-newline pair.
C7_RemovesEveryPairOnce ==
    Rendered =>
        LET t == StripAndPad(span.text)
        IN  /\ html = WrapText(span, cleanup_text(html_escape(
                          Select(t, OutsidePairs(t), 1))))
            /\ (~Contains(span.text, <<"-", "-", "\n">>)
                   => ~Contains(html, HyphenNewline))

\* C7 witness: "hello-\nworld" rendered as "helloworld".
C7_Witness ==
    /\ Rendered
    /\ span.text = <<"h", "e", "l", "l", "o", "-", "\n", "w", "o", "r", "l", "d">>
    /\ html = <<"h", "e", "l", "l", "o", "w", "o", "r", "l", "d">>

\* The text between its first and its last character that is not a newline
\* or carriage return (empty when there is none).
Core(t) ==
    LET keep == {i \in 1..Len(t) : ~IsNewline(t[i])}
    IN  IF keep = {} THEN <<>>
        ELSE SubSeq(t, CHOOSE i \in keep : \A j \in keep : i <= j,
                       CHOOSE i \in keep : \A j \in keep : i >= j)

\* C8: render appends exactly one space if and only if the text ended with a
\* newline or carriage return and what remains after stripping the trailing
\* and leading newlines does not end with a hyphen; otherwise it appends
\* nothing.
C8_SpaceIffTrailingNewlineNoHyphen ==
    Rendered =>
        LET core == Core(span.text)
            stripped == Len(span.text) > 0 /\ IsNewline(span.text[Len(span.text)])
            pad == IF stripped /\ ~(Len(core) > 0 /\ core[Len(core)] = "-")
                   THEN <<" ">> ELSE <<>>
        IN  html = WrapText(span, cleanup_text(html_escape(
                       RemoveHyphenNewline(core \o pad))))

\* C8 witness: "foo\n" rendered as "foo ".
C8_Witness ==
    /\ Rendered
    /\ span.text = <<"f", "o", "o", "\n">>
    /\ html = <<"f", "o", "o", " ">>

\* C9 as stated: the rendered output never contains three consecutive
\* newlines.
C9_NoTripleNewline == Rendered => ~Contains(html, <<"\n", "\n", "\n">>)

\* The normalisation does collapse a run when every newline of it is followed
\* by one whitespace character.
CollapseReached ==
    /\ Rendered
    /\ span.text = <<"a", "\n", " ", "\n", " ", "\n", " ", "b">>
    /\ html = <<"a", "\n", "\n", "b">>

(***************************************************************************)
(* Font classification (pdf.py)                                            *)
(***************************************************************************)

\* flag_map of font_flags_to_format: bit position -> flag name
flag_map ==
    [p \in {1, 2, 3, 4, 6, 7, 17, 18, 19, 20} |->
        CASE p = 1  -> "FixedPitch"
          [] p = 2  -> "Serif"
          [] p = 3  -> "Symbolic"
          [] p = 4  -> "Script"
          [] p = 6  -> "Nonsymbolic"
          [] p = 7  -> "Italic"
          [] p = 17 -> "AllCap"
          [] p = 18 -> "SmallCap"
          [] p = 19 -> "ForceBold"
          [] p = 20 -> "UseExternAttr"]

\* flags & (1 << (bit_position - 1)), on Python's unbounded two's-complement
\* integers (\div rounds down, so a negative flags value has its high bits set).
BitSet(flags, bit_position) == (flags \div (2 ^ (bit_position - 1))) % 2 = 1

\* pdf.py lines 50-55: the names of the set bits, {"Plain"} when there is none.
SetFlags(flags) ==
    LET named == {flag_map[p] : p \in {q \in DOMAIN flag_map : BitSet(flags, q)}}
    IN  IF named = {} THEN {"Plain"} ELSE named

PlainIndicators ==
    {"FixedPitch", "Serif", "Script", "Nonsymbolic", "AllCap", "SmallCap", "UseExternAttr"}

\* A plausible slip: the {"Plain"} default of line 55 is missing.
font_flags_to_format_NoPlainDefault(flags) ==
    LET set_flags == {flag_map[p] : p \in {q \in DOMAIN flag_map : BitSet(flags, q)}}
    IN  IF set_flags = {"Symbolic", "Italic"}
           \/ set_flags = {"Symbolic", "Italic", "UseExternAttr"} THEN {"math"}
        ELSE IF set_flags = {"UseExternAttr"} THEN {"plain"}
        ELSE IF set_flags = {"Plain"} THEN {"plain"}
        ELSE (IF set_flags \cap {"Italic"} # {} THEN {"italic"} ELSE {})
             \cup (IF set_flags \cap {"ForceBold"} # {} THEN {"bold"} ELSE {})
             \cup (IF set_flags \cap PlainIndicators # {} THEN {"plain"} ELSE {})

\* A plausible slip: the second alternative of the math test is missing.
font_flags_to_format_MathFirstOnly(flags) ==
    LET set_flags == SetFlags(flags)
    IN  IF set_flags = {"Symbolic", "Italic"} THEN {"math"}
        ELSE IF set_flags = {"UseExternAttr"} THEN {"plain"}
        ELSE IF set_flags = {"Plain"} THEN {"plain"}
        ELSE (IF set_flags \cap {"Italic"} # {} THEN {"italic"} ELSE {})
             \cup (IF set_flags \cap {"ForceBold"} # {} THEN {"bold"} ELSE {})
             \cup (IF set_flags \cap PlainIndicators # {} THEN {"plain"} ELSE {})

\* PdfProvider.font_flags_to_format(flags)
font_flags_to_format(flags) ==
    LET set_flags == SetFlags(flags)
    IN  IF set_flags = {"Symbolic", "Italic"}
           \/ set_flags = {"Symbolic", "Italic", "UseExternAttr"} THEN {"math"}
        ELSE IF set_flags = {"UseExternAttr"} THEN {"plain"}
        ELSE IF set_flags = {"Plain"} THEN {"plain"}
        ELSE (IF set_flags \cap {"Italic"} # {} THEN {"italic"} ELSE {})
             \cup (IF set_flags \cap {"ForceBold"} # {} THEN {"bold"} ELSE {})
             \cup (IF set_flags \cap PlainIndicators # {} THEN {"plain"} ELSE {})

UpperLetters == <<"A", "B", "C", "D", "E", "F", "G", "H", "I", "J", "K", "L", "M",
                  "N", "O", "P", "Q", "R", "S", "T", "U", "V", "W", "X", "Y", "Z">>
LowerLetters == <<"a", "b", "c", "d", "e", "f", "g", "h", "i", "j", "k", "l", "m",
                  "n", "o", "p", "q", "r", "s", "t", "u", "v", "w", "x", "y", "z">>

\* str.lower()
lower(t) ==
    [i \in 1..Len(t) |->
        IF \E k \in 1..Len(UpperLetters) : UpperLetters[k] = t[i]
        THEN LowerLetters[CHOOSE k \in 1..Len(UpperLetters) : UpperLetters[k] = t[i]]
        ELSE t[i]]

\* needle in haystack
In(needle, haystack) ==
    \E i \in 1..(Len(haystack) - Len(needle) + 1) :
        \A j \in 1..Len(needle) : haystack[i + j - 1] = needle[j]

\* PdfProvider.font_names_to_format(font_name)
font_names_to_format(font_name) ==
    (IF In(<<"b", "o", "l", "d">>, lower(font_name)) THEN {"bold"} ELSE {})
    \cup (IF In(<<"i", "t", "a", "l">>, lower(font_name)) THEN {"italic"} ELSE {})

\* pdf.py line 101
font_formats(flags, font_name) ==
    font_flags_to_format(flags) \cup font_names_to_format(font_name)

\* Bit positions the flags inputs are built from: the ten named ones and
\* position 5, which flag_map does not name.
InputBits == {1, 2, 3, 4, 5, 6, 7, 17, 18, 19, 20}

RECURSIVE SumBits(_)
SumBits(S) ==
    IF S = {} THEN 0
    ELSE LET p == CHOOSE q \in S : TRUE IN 2 ^ (p - 1) + SumBits(S \ {p})

\* Every combination of the input bits, and two negative values.
FlagInputs == {SumBits(S) : S \in SUBSET InputBits} \cup {-1, -5}

FontNames == {
    <<>>,
    <<"a", "n", "y", "t", "h", "i", "n", "g">>,
    <<"A", "r", "i", "a", "l">>,
    <<"T", "i", "m", "e", "s", "-", "B", "o", "l", "d">>,
    <<"T", "I", "M", "E", "S", "-", "I", "T", "A", "L", "I", "C">>,
    <<"B", "o", "l", "d", "I", "t", "a", "l", "i", "c">>,
    <<"B", "o", "l">> }

RenderIdle ==
    /\ span = [text |-> <<>>, formats |-> {}, url |-> None, anchor |-> None,
               ignore_for_output |-> FALSE]
    /\ html = <<>>
    /\ rpc = "idle"

ClassInit ==
    /\ c_flags \in FlagInputs
    /\ c_name \in FontNames
    /\ c_formats = {}
    /\ cpc = "start"

Classify ==
    /\ cpc = "start"
    /\ c_formats' = font_formats(c_flags, c_name)
    /\ cpc' = "done"
    /\ UNCHANGED <<c_flags, c_name, renderVars, setupVars, imageVars>>

InitClassify == ClassInit /\ RenderIdle /\ SetupIdle /\ ImageIdle
NextClassify == Classify
SpecClassify == InitClassify /\ [][NextClassify]_vars

(***************************************************************************)
(* Claims about the classifier (checked under SpecClassify)                *)
(***************************************************************************)

Classified == cpc = "done"

\* Bit k of f, read off the remainder modulo 2^k.
HasBit(f, k) == (f % (2 ^ k)) >= 2 ^ (k - 1)

\* The named flags whose bit is set in f.
NamedBits(f) == {flag_map[p] : p \in {q \in DOMAIN flag_map : HasBit(f, q)}}

NameHas(word) == In(word, lower(c_name))
NameBold == NameHas(<<"b", "o", "l", "d">>)
NameItal == NameHas(<<"i", "t", "a", "l">>)

\* C2 as stated: the classifier never yields an empty format set.
C2_NeverEmpty == Classified => c_formats # {}

\* C2 as amended: the classifier is total and yields a set of format tags that
\* is empty exactly when the named bits of flags are {Symbolic} alone and the
\* font name contains neither "bold" nor "ital"; flags with no named bit fall
\* back to plain, and classify(0, "") = {plain}.
C2_EmptyOnlyForSymbolicAlone ==
    Classified =>
        /\ c_formats \subseteq FormatTags
        /\ (c_formats = {}) <=>
               (NamedBits(c_flags) = {"Symbolic"} /\ ~NameBold /\ ~NameItal)
        /\ (NamedBits(c_flags) = {} => "plain" \in c_formats)
        /\ (c_flags = 0 /\ c_name = <<>> => c_formats = {"plain"})

\* C2 witness: classify(0, "") = {plain}.
C2_Witness == Classified /\ c_flags = 0 /\ c_name = <<>> /\ c_formats = {"plain"}

MathBits(f) ==
    \/ NamedBits(f) = {"Symbolic", "Italic"}
    \/ NamedBits(f) = {"Symbolic", "Italic", "UseExternAttr"}

\* C3 as stated: flags whose named bits are exactly {Symbolic, Italic}, with or
\* without UseExternAttr, classify as exactly {math} for any font name.
C3_ExactlyMath == (Classified /\ MathBits(c_flags)) => c_formats = {"math"}

\* C3 as amended: for such flags the flag step gives {math} and the result is
\* {math} united with what the font name adds (bold for "bold", italic for
\* "ital"), so it is exactly {math} when the name contains neither.
C3_MathPlusNameFormats ==
    (Classified /\ MathBits(c_flags)) =>
        /\ "math" \in c_formats
        /\ c_formats \ {"math"} =
               (IF NameBold THEN {"bold"} ELSE {}) \cup (IF NameItal THEN {"italic"} ELSE {})

\* C3 witness: Symbolic + Italic + UseExternAttr with the font name "anything"
\* classified as {math}.
C3_Witness ==
    /\ Classified
    /\ c_flags = 4 + 64 + 524288
    /\ c_name = <<"a", "n", "y", "t", "h", "i", "n", "g">>
    /\ c_formats = {"math"}

(***************************************************************************)
(* PdfProvider.setup: building lines and spans, the quality gate           *)
(***************************************************************************)

\* str.strip(): whitespace removed at both ends.
RECURSIVE lstrip(_)
lstrip(t) == IF Len(t) > 0 /\ IsSpace(t[1]) THEN lstrip(Tail(t)) ELSE t

RECURSIVE rstrip(_)
rstrip(t) ==
    IF Len(t) > 0 /\ IsSpace(t[Len(t)]) THEN rstrip(SubSeq(t, 1, Len(t) - 1)) ELSE t

strip(t) == rstrip(lstrip(t))

\* pdf.py lines 102-113: the Span built from a raw span.  formats is
\* list(font_formats), a list in no particular order: modelled as the set.
MakeSpan(raw, page_id) ==
    [polygon |-> [bbox |-> raw.bbox],
     text |-> strip(raw.text),
     font |-> raw.font.name,
     font_weight |-> raw.font.weight,
     font_size |-> raw.font.size,
     minimum_position |-> raw.char_start_idx,
     maximum_position |-> raw.char_end_idx,
     formats |-> font_formats(raw.font.flags, raw.font.name),
     page_id |-> page_id]

\* A plausible slip: the test of lines 99-100 is missing and blank spans are
\* kept.
RECURSIVE BuildSpans_KeepBlank(_, _)
BuildSpans_KeepBlank(raw_spans, page_id) ==
    IF raw_spans = <<>> THEN <<>>
    ELSE <<MakeSpan(raw_spans[1], page_id)>>
         \o BuildSpans_KeepBlank(Tail(raw_spans), page_id)

\* pdf.py lines 97-114: the spans of one raw line; a span whose text is empty
\* once stripped is skipped.
RECURSIVE BuildSpans(_, _)
BuildSpans(raw_spans, page_id) ==
    IF raw_spans = <<>> THEN <<>>
    ELSE (IF strip(raw_spans[1].text) = <<>>
          THEN <<>>
          ELSE <<MakeSpan(raw_spans[1], page_id)>>)
         \o BuildSpans(Tail(raw_spans), page_id)

\* pdf.py lines 115-120: the Line built from a raw line.
MakeLine(raw_line, page_id) ==
    [polygon |-> [bbox |-> raw_line.bbox], page_id |-> page_id]

\* A plausible slip: a Line is appended only when its raw line kept a span.
RECURSIVE BuildBlock_SkipEmptyLines(_, _)
BuildBlock_SkipEmptyLines(raw_lines, page_id) ==
    IF raw_lines = <<>> THEN [lines |-> <<>>, line_spans |-> <<>>]
    ELSE LET spans == BuildSpans(raw_lines[1].spans, page_id)
             rest == BuildBlock_SkipEmptyLines(Tail(raw_lines), page_id)
         IN  [lines |-> (IF spans = <<>> THEN <<>>
                         ELSE <<MakeLine(raw_lines[1], page_id)>>) \o rest.lines,
              line_spans |-> <<spans>> \o rest.line_spans]

\* pdf.py lines 96-121: the loop over the lines of one block, appending one
\* Line and one span list per raw line.
RECURSIVE BuildBlock(_, _)
BuildBlock(raw_lines, page_id) ==
    IF raw_lines = <<>> THEN [lines |-> <<>>, line_spans |-> <<>>]
    ELSE LET spans == BuildSpans(raw_lines[1].spans, page_id)
             rest == BuildBlock(Tail(raw_lines), page_id)
         IN  [lines |-> <<MakeLine(raw_lines[1], page_id)>> \o rest.lines,
              line_spans |-> <<spans>> \o rest.line_spans]

\* pdf.py lines 93-121: the loop over the blocks of one page.
RECURSIVE BuildPage(_, _)
BuildPage(blocks, page_id) ==
    IF blocks = <<>> THEN [lines |-> <<>>, line_spans |-> <<>>]
    ELSE LET first == BuildBlock(blocks[1].lines, page_id)
             rest == BuildPage(Tail(blocks), page_id)
         IN  [lines |-> first.lines \o rest.lines,
              line_spans |-> first.line_spans \o rest.line_spans]

\* sum(line_spans_list, [])
RECURSIVE Flatten(_)
Flatten(lists) == IF lists = <<>> THEN <<>> ELSE lists[1] \o Flatten(Tail(lists))

\* pdf.py lines 130-131: for span in line_spans: text = text + " " + span.text
RECURSIVE SpansText(_)
SpansText(spans) ==
    IF spans = <<>> THEN <<>> ELSE <<" ">> \o spans[1].text \o SpansText(Tail(spans))

\* pdf.py lines 128-132: the text handed to detect_bad_ocr.
RECURSIVE GateText(_)
GateText(line_spans_list) ==
    IF line_spans_list = <<>> THEN <<>>
    ELSE SpansText(line_spans_list[1]) \o <<"\n">> \o GateText(Tail(line_spans_list))

\* PdfProvider.check_line_spans(line_spans_list); bad_ocr is what the external
\* detect_bad_ocr answers for the text, when it is asked.
check_line_spans(line_spans_list, bad_ocr) ==
    IF Len(Flatten(line_spans_list)) = 0 THEN FALSE
    ELSE IF Len(strip(GateText(line_spans_list))) = 0 THEN FALSE
    ELSE IF bad_ocr THEN FALSE
    ELSE TRUE

(***************************************************************************)
(* What the decoding engine may return                                     *)
(***************************************************************************)

\* Bounds on one document returned by the engine.
MaxPages  == 2      \* pages
MaxBlocks == 2      \* blocks, over all pages
MaxLines  == 2      \* raw lines, over all pages
MaxSpans  == 2      \* raw spans, over all pages

\* The raw spans the engine's lines are made of: a whitespace-only span, a
\* Symbolic-flagged span and a bold italic span, the last two with
\* surrounding whitespace.
RawSpans == {
    [bbox |-> "s0", text |-> <<" ">>, char_start_idx |-> 0, char_end_idx |-> 0,
     font |-> [name |-> <<"A", "r", "i", "a", "l">>, flags |-> 0,
               weight |-> 400, size |-> 10]],
    [bbox |-> "s1", text |-> <<" ", "a">>, char_start_idx |-> 1, char_end_idx |-> 2,
     font |-> [name |-> <<"A", "r", "i", "a", "l">>, flags |-> 4,
               weight |-> 400, size |-> 10]],
    [bbox |-> "s2", text |-> <<"b", "\n">>, char_start_idx |-> 3, char_end_idx |-> 4,
     font |-> [name |-> <<"B", "o", "l", "d">>, flags |-> 64,
               weight |-> 700, size |-> 12]] }

\* Sequences of raw-span lists: at most nl lists holding at most ns spans.
\* A raw line may hold no span; a block holds at least one line.
RECURSIVE BlockShapes(_, _)
BlockShapes(nl, ns) ==
    {<<>>} \cup
    (IF nl = 0 THEN {}
     ELSE UNION {{<<l>> \o rest : rest \in BlockShapes(nl - 1, ns - Len(l))} :
                    l \in SeqUpTo(RawSpans, ns)})

SpanCount(block) == Len(Flatten(block))

RECURSIVE PageShapes(_, _, _)
PageShapes(nb, nl, ns) ==
    {<<>>} \cup
    (IF nb = 0 THEN {}
     ELSE UNION {{<<b>> \o rest :
                     rest \in PageShapes(nb - 1, nl - Len(b), ns - SpanCount(b))} :
                    b \in BlockShapes(nl, ns) \ {<<>>}})

LineCount(page) == Len(Flatten(page))
PageSpanCount(page) == Len(Flatten(Flatten(page)))

RECURSIVE DocShapes(_, _, _, _)
DocShapes(np, nb, nl, ns) ==
    {<<>>} \cup
    (IF np = 0 THEN {}
     ELSE UNION {{<<p>> \o rest :
                     rest \in DocShapes(np - 1, nb - Len(p), nl - LineCount(p),
                                        ns - PageSpanCount(p))} :
                    p \in PageShapes(nb, nl, ns)})

\* The page record of the engine for a page shape: page ids count from 0 in
\* the order returned (page_range = None), and every raw line has its own
\* bounding box.
EnginePage(shape, index) ==
    [page |-> index - 1,
     blocks |-> [b \in 1..Len(shape) |->
                   [lines |-> [l \in 1..Len(shape[b]) |->
                                 [bbox |-> <<index - 1, b, l>>,
                                  spans |-> shape[b][l]]]]]]

EngineOutputs ==
    {[i \in 1..Len(d) |-> EnginePage(d[i], i)] :
        d \in DocShapes(MaxPages, MaxBlocks, MaxLines, MaxSpans)}

(***************************************************************************)
(* The provider's life: __init__ (setup), then __del__                     *)
(***************************************************************************)

SetupInit ==
    /\ spc = "new"
    /\ doc = "unset"
    /\ opens = 0
    /\ closes = 0
    /\ del_error = "none"
    /\ engine_pages = <<>>
    /\ next_page = 1
    /\ gate = <<>>
    /\ page_lines = <<>>

\* pdf.py line 83: pdfium.PdfDocument(self.filepath) returns a document.
OpenDocument ==
    /\ spc = "new"
    /\ doc' = "open"
    /\ opens' = opens + 1
    /\ spc' = "opened"
    /\ UNCHANGED <<closes, del_error, engine_pages, next_page, gate, page_lines,
                   renderVars, classVars, imageVars>>

\* pdf.py line 83: pdfium.PdfDocument raises; __init__ ends with the
\* exception and self.doc was never assigned.
OpenFails ==
    /\ spc = "new"
    /\ spc' = "failed"
    /\ UNCHANGED <<doc, opens, closes, del_error, engine_pages, next_page, gate,
                   page_lines, renderVars, classVars, imageVars>>

\* pdf.py lines 84-90: dictionary_output returns the page records.
Decode ==
    /\ spc = "opened"
    /\ engine_pages' \in EngineOutputs
    /\ next_page' = 1
    /\ spc' = "pages"
    /\ UNCHANGED <<doc, opens, closes, del_error, gate, page_lines,
                   renderVars, classVars, imageVars>>

\* pdf.py lines 84-90 or 91-123: dictionary_output, or the work on a page,
\* raises; __init__ ends with the exception.
SetupFails ==
    /\ spc \in {"opened", "pages"}
    /\ spc' = "failed"
    /\ UNCHANGED <<doc, opens, closes, del_error, engine_pages, next_page, gate,
                   page_lines, renderVars, classVars, imageVars>>

\* pdf.py lines 91-123: one pass of the loop over the page records.
ProcessPage ==
    /\ spc = "pages"
    /\ next_page <= Len(engine_pages)
    /\ \E bad_ocr \in BOOLEAN :
         LET page == engine_pages[next_page]
             page_id == page.page
             built == BuildPage(page.blocks, page_id)
             ok == check_line_spans(built.line_spans, bad_ocr)
         IN  /\ gate' = Append(gate, ok)
             /\ page_lines' =
                  IF ok
                  THEN [p \in DOMAIN page_lines \cup {page_id} |->
                          IF p = page_id
                          THEN <<built.lines, built.line_spans>>
                          ELSE page_lines[p]]
                  ELSE page_lines
    /\ next_page' = next_page + 1
    /\ UNCHANGED <<spc, doc, opens, closes, del_error, engine_pages,
                   renderVars, classVars, imageVars>>

\* The loop of line 91 is over: setup and __init__ return.
SetupReturns ==
    /\ spc = "pages"
    /\ next_page > Len(engine_pages)
    /\ spc' = "ready"
    /\ UNCHANGED <<doc, opens, closes, del_error, engine_pages, next_page, gate,
                   page_lines, renderVars, classVars, imageVars>>

\* PdfProvider.__del__: self.doc.close().  The attribute lookup raises
\* AttributeError when self.doc was never assigned.
Teardown ==
    /\ spc \in {"ready", "failed"}
    /\ IF doc = "unset"
       THEN /\ del_error' = "AttributeError"
            /\ UNCHANGED <<doc, closes>>
       ELSE /\ doc' = "closed"
            /\ closes' = closes + 1
            /\ UNCHANGED del_error
    /\ spc' = "dead"
    /\ UNCHANGED <<opens, engine_pages, next_page, gate, page_lines,
                   renderVars, classVars, imageVars>>

InitSetup == SetupInit /\ RenderIdle /\ ClassIdle /\ ImageIdle
NextSetup ==
    \/ OpenDocument
    \/ OpenFails
    \/ Decode
    \/ SetupFails
    \/ ProcessPage
    \/ SetupReturns
    \/ Teardown
SpecSetup == InitSetup /\ [][NextSetup]_vars

(***************************************************************************)
(* Claims about setup and teardown (checked under SpecSetup)               *)
(***************************************************************************)

\* The raw spans of a page record, as a set.
RawSpansOf(page) ==
    UNION {UNION {{page.blocks[b].lines[l].spans[k] :
                      k \in 1..Len(page.blocks[b].lines[l].spans)} :
                     l \in 1..Len(page.blocks[b].lines)} :
             b \in 1..Len(page.blocks)}

Blank(text) == \A i \in 1..Len(text) : IsSpace(text[i])

\* The spans kept for a stored page.
RetainedSpans(id) ==
    UNION {{page_lines[id][2][l][k] : k \in 1..Len(page_lines[id][2][l])} :
             l \in 1..Len(page_lines[id][2])}

\* C4: a page is a key of the page-lines map only if it was processed and
\* passed the quality gate; a processed page whose raw spans are all
\* whitespace-only (or that has none) is absent; a stored page has at least one
\* retained span, and every retained span has a non-empty text with no
\* whitespace at either end.
C4_OnlyGatedPagesStored ==
    /\ \A id \in DOMAIN page_lines : \E i \in 1..Len(engine_pages) : engine_pages[i].page = id
    /\ \A i \in 1..Len(engine_pages) :
         LET id == engine_pages[i].page
         IN  /\ id \in DOMAIN page_lines =>
                   /\ i < next_page
                   /\ gate[i]
                   /\ RetainedSpans(id) # {}
                   /\ \A sp \in RetainedSpans(id) :
                          /\ sp.text # <<>>
                          /\ ~IsSpace(sp.text[1])
                          /\ ~IsSpace(sp.text[Len(sp.text)])
             /\ (i < next_page /\ ~gate[i]) => id \notin DOMAIN page_lines
             /\ (i < next_page /\ \A r \in RawSpansOf(engine_pages[i]) : Blank(r.text))
                   => id \notin DOMAIN page_lines

\* C4 witness: setup is over; page 0 had only a whitespace span and is absent,
\* page 1 is stored.
C4_Witness ==
    /\ spc = "ready"
    /\ Len(engine_pages) = 2
    /\ RawSpansOf(engine_pages[1]) # {}
    /\ \A r \in RawSpansOf(engine_pages[1]) : Blank(r.text)
    /\ DOMAIN page_lines = {1}

\* Raw lines of the blocks before block b.
RECURSIVE LinesBefore(_, _)
LinesBefore(page, b) ==
    IF b <= 1 THEN 0
    ELSE Len(page.blocks[b - 1].lines) + LinesBefore(page, b - 1)

NonBlankIndices(raw_spans) ==
    {k \in 1..Len(raw_spans) : ~Blank(raw_spans[k].text)}

\* C10: for every stored page, the Lines and the span lists are as many as
\* the page's raw lines; the k-th Line and the k-th span list come from the
\* k-th raw line in block order then line order; a span list holds exactly
\* the raw line's non-blank spans, in their order (empty when all were
\* discarded).
C10_LinesAndSpanListsAligned ==
    \A id \in DOMAIN page_lines :
        LET page == engine_pages[id + 1]
            lines == page_lines[id][1]
            line_spans == page_lines[id][2]
            n == LinesBefore(page, Len(page.blocks) + 1)
        IN  /\ Len(lines) = n
            /\ Len(line_spans) = n
            /\ \A b \in 1..Len(page.blocks) : \A l \in 1..Len(page.blocks[b].lines) :
                 LET k == LinesBefore(page, b) + l
                     raw == page.blocks[b].lines[l]
                     from == Select(raw.spans, NonBlankIndices(raw.spans), 1)
                 IN  /\ lines[k].polygon.bbox = raw.bbox
                     /\ lines[k].page_id = id
                     /\ Len(line_spans[k]) = Len(from)
                     /\ \A j \in 1..Len(from) :
                          /\ line_spans[k][j].polygon.bbox = from[j].bbox
                          /\ line_spans[k][j].minimum_position = from[j].char_start_idx
                          /\ line_spans[k][j].maximum_position = from[j].char_end_idx
                          /\ line_spans[k][j].page_id = id

\* C10 witness: a stored page of two raw lines, the first of which had all
\* its spans discarded.
C10_Witness ==
    /\ spc = "ready"
    /\ \E id \in DOMAIN page_lines :
         /\ Len(page_lines[id][1]) = 2
         /\ Len(engine_pages[id + 1].blocks[1].lines[1].spans) = 1
         /\ page_lines[id][2][1] = <<>>
         /\ Len(page_lines[id][2][2]) = 1

\* C6 as stated: the document handle is released exactly once in every
\* execution that acquired it, never twice and never without having been
\* acquired, and teardown attempts no close when the open failed.
C6_ReleasedExactlyOnce ==
    /\ closes <= opens
    /\ spc = "dead" => closes = opens
    /\ opens = 0 => del_error = "none"

\* What does hold: a handle that was opened is closed once by __del__,
\* whether setup returned or failed after the open.
HandleClosedOnceWhenOpened ==
    /\ closes <= opens
    /\ spc = "dead" => closes = opens

(***************************************************************************)
(* PdfProvider.get_image: the body behind functools.lru_cache(maxsize=None)*)
(*                                                                         *)
(* The wrapper looks the key up, returns the cached value on a hit, and on *)
(* a miss calls the body and then stores what it returned.  Nothing is     *)
(* held between the lookup and the store, so the calls of several threads  *)
(* interleave at these three steps.                                        *)
(***************************************************************************)

\* Calls of get_image in one run.
MaxCalls == 3

ImageInit ==
    /\ cache = [k \in Keys |-> NoImage]
    /\ tpc = [t \in Threads |-> "idle"]
    /\ tkey = [t \in Threads |-> <<0, 72>>]
    /\ timg = [t \in Threads |-> NoImage]
    /\ returned = [t \in Threads |-> NoImage]
    /\ rasters = [k \in Keys |-> 0]
    /\ calls = 0

\* A thread calls self.get_image(idx, dpi).
CallGetImage(t, k) ==
    /\ tpc[t] = "idle"
    /\ calls < MaxCalls
    /\ calls' = calls + 1
    /\ tkey' = [tkey EXCEPT ![t] = k]
    /\ tpc' = [tpc EXCEPT ![t] = "lookup"]
    /\ UNCHANGED <<cache, timg, returned, rasters, renderVars, classVars, setupVars>>

\* The wrapper's lookup finds the key: the cached image is returned.
CacheHit(t) ==
    /\ tpc[t] = "lookup"
    /\ cache[tkey[t]] # NoImage
    /\ returned' = [returned EXCEPT ![t] = cache[tkey[t]]]
    /\ tpc' = [tpc EXCEPT ![t] = "idle"]
    /\ UNCHANGED <<cache, tkey, timg, rasters, calls, renderVars, classVars, setupVars>>

\* The wrapper's lookup misses: the body is called.
CacheMiss(t) ==
    /\ tpc[t] = "lookup"
    /\ cache[tkey[t]] = NoImage
    /\ tpc' = [tpc EXCEPT ![t] = "body"]
    /\ UNCHANGED <<cache, tkey, timg, returned, rasters, calls,
                   renderVars, classVars, setupVars>>

\* pdf.py lines 141-144: the page is rendered and converted to RGB.
Rasterize(t) ==
    /\ tpc[t] = "body"
    /\ rasters' = [rasters EXCEPT ![tkey[t]] = @ + 1]
    /\ timg' = [timg EXCEPT ![t] = [key |-> tkey[t], serial |-> rasters[tkey[t]] + 1]]
    /\ tpc' = [tpc EXCEPT ![t] = "store"]
    /\ UNCHANGED <<cache, tkey, returned, calls, renderVars, classVars, setupVars>>

\* The wrapper stores the body's result under the key and returns it.
CacheStore(t) ==
    /\ tpc[t] = "store"
    /\ cache' = [cache EXCEPT ![tkey[t]] = timg[t]]
    /\ returned' = [returned EXCEPT ![t] = timg[t]]
    /\ tpc' = [tpc EXCEPT ![t] = "idle"]
    /\ UNCHANGED <<tkey, timg, rasters, calls, renderVars, classVars, setupVars>>

InitImage == ImageInit /\ RenderIdle /\ ClassIdle /\ SetupIdle
NextImage ==
    \E t \in Threads :
        \/ \E k \in Keys : CallGetImage(t, k)
        \/ CacheHit(t)
        \/ CacheMiss(t)
        \/ Rasterize(t)
        \/ CacheStore(t)
SpecImage == InitImage /\ [][NextImage]_vars

(***************************************************************************)
(* Claim about get_image (checked under SpecImage)                         *)
(***************************************************************************)

\* C5 as stated: over the provider's life and for any interleaving of
\* concurrent callers, the page is rendered at most once per (idx, dpi) key.
C5_AtMostOneRasterPerKey == \A k \in Keys : rasters[k] <= 1

\* What does hold: once a key is stored, calls that start afterwards return
\* the stored image without rendering.
HitReturnsCachedImage ==
    [][\A t \in Threads :
          (tpc[t] = "lookup" /\ cache[tkey[t]] # NoImage /\ tpc'[t] = "idle")
              => (returned'[t] = cache[tkey[t]] /\ rasters' = rasters)]_vars

====
